---- MODULE Spec2Model ----
(***************************************************************************)
(* The in-memory users store of src/src/services/usersService.js: the      *)
(* module-level array `users` and the operations list, getById, create,    *)
(* update and remove that read and change it.                              *)
(*                                                                         *)
(* JavaScript strings that the code inspects (names compared with <,       *)
(* emails passed through toLowerCase, the sort option passed through       *)
(* split) are sequences of UTF-16 code units.  Ids are UUID strings in the *)
(* code and are only ever compared for equality: they are numbers here.    *)
(* Timestamps are ISO-8601 strings of one fixed width, whose string order  *)
(* is their chronological order: they are numbers (a millisecond count).   *)
(***************************************************************************)
EXTENDS Integers, Sequences, FiniteSets, TLC

VARIABLES
    users,   \* the store: the array `users` of usersService.js
    clock,   \* what new Date() reads
    nextId,  \* the next value uuidv4() returns
    steps,   \* events so far (calls and clock ticks)
    last,    \* the last call: its name, arguments and outcome
    requests \* the HTTP requests received whose body is read or was answered

vars == <<users, clock, nextId, steps, last, requests>>

(***************************************************************************)
(* Bounds of the model.                                                    *)
(***************************************************************************)
\* events in one run of Spec and SpecRaw
MaxSteps == 2
\* calls in one run of SpecQuery
MaxQuerySteps == 3

(***************************************************************************)
(* String literals of the source and of the requests.                      *)
(***************************************************************************)
\* "Asha"
NameAsha ==
    <<65, 115, 104, 97>>
\* "Ravi"
NameRavi ==
    <<82, 97, 118, 105>>
\* "Maya"
NameMaya ==
    <<77, 97, 121, 97>>
\* "Alex Johnson"
NameAlex ==
    <<65, 108, 101, 120, 32, 74, 111, 104, 110, 115, 111, 110>>
\* "Asha Patel"
NameAshaPatel ==
    <<65, 115, 104, 97, 32, 80, 97, 116, 101, 108>>
\* "asha@example.com"
EmailAsha ==
    <<97, 115, 104, 97, 64, 101, 120, 97, 109, 112, 108, 101, 46, 99, 111, 109>>
\* "ravi@example.com"
EmailRavi ==
    <<114, 97, 118, 105, 64, 101, 120, 97, 109, 112, 108, 101, 46, 99, 111, 109>>
\* "maya@example.com"
EmailMaya ==
    <<109, 97, 121, 97, 64, 101, 120, 97, 109, 112, 108, 101, 46, 99, 111, 109>>
\* "alex@example.com"
EmailAlex ==
    <<97, 108, 101, 120, 64, 101, 120, 97, 109, 112, 108, 101, 46, 99, 111, 109>>
\* "ALEX@example.com"
EmailAlexUpper ==
    <<65, 76, 69, 88, 64, 101, 120, 97, 109, 112, 108, 101, 46, 99, 111, 109>>
\* "ASHA@example.com"
EmailAshaUpper ==
    <<65, 83, 72, 65, 64, 101, 120, 97, 109, 112, 108, 101, 46, 99, 111, 109>>

\* "student"
RoleStudent ==
    <<115, 116, 117, 100, 101, 110, 116>>
\* "instructor"
RoleInstructor ==
    <<105, 110, 115, 116, 114, 117, 99, 116, 111, 114>>

\* "Student"
RoleStudentCapital ==
    <<83, 116, 117, 100, 101, 110, 116>>
\* "name"
FieldName ==
    <<110, 97, 109, 101>>
\* "createdAt"
FieldCreatedAt ==
    <<99, 114, 101, 97, 116, 101, 100, 65, 116>>
\* "desc"
DirDesc ==
    <<100, 101, 115, 99>>
\* "name:asc"
SortNameAsc ==
    <<110, 97, 109, 101, 58, 97, 115, 99>>
\* "name:desc"
SortNameDesc ==
    <<110, 97, 109, 101, 58, 100, 101, 115, 99>>
\* "createdAt:asc"
SortCreatedAsc ==
    <<99, 114, 101, 97, 116, 101, 100, 65, 116, 58, 97, 115, 99>>
\* "createdAt:desc"
SortCreatedDesc ==
    <<99, 114, 101, 97, 116, 101, 100, 65, 116, 58, 100, 101, 115, 99>>
\* "email:asc"
SortEmailAsc ==
    <<101, 109, 97, 105, 108, 58, 97, 115, 99>>
\* "name"
SortNameOnly ==
    <<110, 97, 109, 101>>
\* "name:DESC"
SortNameDescUpper ==
    <<110, 97, 109, 101, 58, 68, 69, 83, 67>>
\* "name:up"
SortNameUp ==
    <<110, 97, 109, 101, 58, 117, 112>>

(***************************************************************************)
(* The seeded store.                                                       *)
(***************************************************************************)
\* '11111111-1111-4111-8111-111111111111'
IdAsha == 1
\* '22222222-2222-4222-8222-222222222222'
IdRavi == 2
\* '33333333-3333-4333-8333-333333333333'
IdMaya == 3
\* '2025-09-24T00:00:00.000Z'
SeedTime == 0

SeedUsers ==
    << [id |-> IdAsha, name |-> NameAsha, email |-> EmailAsha,
        role |-> RoleStudent, createdAt |-> SeedTime],
       [id |-> IdRavi, name |-> NameRavi, email |-> EmailRavi,
        role |-> RoleStudent, createdAt |-> SeedTime],
       [id |-> IdMaya, name |-> NameMaya, email |-> EmailMaya,
        role |-> RoleInstructor, createdAt |-> SeedTime] >>

\* an id no record was ever given
UnknownId == IdAsha - 1

\* the ids a caller can know of: every id issued so far, and one never issued
KnownIds == UnknownId .. (nextId - 1)

(***************************************************************************)
(* JavaScript primitives the service uses.                                 *)
(***************************************************************************)
\* String.prototype.toLowerCase, on the ASCII letters the model's strings hold
ToLowerCase(s) ==
    [i \in 1..Len(s) |-> IF s[i] \in 65..90 THEN s[i] + 32 ELSE s[i]]

\* an object with no property: {}
EmptyObject == [k \in {} |-> 0]

\* `obj.key` is truthy: the property is there and is not the empty string
Truthy(obj, key) ==
    /\ key \in DOMAIN obj
    /\ obj[key] # <<>>

\* Array.prototype.findIndex(user => user.id === id): 0-based, -1 when absent
FindIndex(us, id) ==
    IF \E i \in 1..Len(us) : us[i].id = id
    THEN (CHOOSE i \in 1..Len(us) :
              /\ us[i].id = id
              /\ \A j \in 1..(i - 1) : us[j].id # id) - 1
    ELSE -1

\* the error create and update throw on a duplicate email
DuplicateEmailError ==
    [message |-> "Email already exists", code |-> "VALIDATION_ERROR",
     statusCode |-> 400]

\* the value null
Null == [isNull |-> TRUE]

(***************************************************************************)
(* getById                                                                 *)
(***************************************************************************)
getById(us, id) ==
    IF FindIndex(us, id) = -1 THEN Null ELSE us[FindIndex(us, id) + 1]

(***************************************************************************)
(* create                                                                  *)
(***************************************************************************)
\* the check of create with the emails compared as they are
EmailExistsExact(us, email) ==
    \E i \in 1..Len(us) : us[i].email = email

\* the check of create against the stored emails and the seeded ones: an
\* email stays taken after its record is gone
EmailExistsOrSeeded(us, email) ==
    \E i \in 1..Len(us \o SeedUsers) :
        ToLowerCase((us \o SeedUsers)[i].email) = ToLowerCase(email)

\* users.find(user => user.email.toLowerCase() === payload.email.toLowerCase())
EmailExists(us, email) ==
    \E i \in 1..Len(us) : ToLowerCase(us[i].email) = ToLowerCase(email)

\* an id made from the size of the store
IdFromLength(us, n) == Len(us) + 1

\* uuidv4(): a value no earlier call returned
Uuidv4(us, n) == n

\* the new record with the role of the payload ignored
NewUserAlwaysStudent(payload, id, now) ==
    [id |-> id,
     name |-> payload.name,
     email |-> payload.email,
     role |-> RoleStudent,
     createdAt |-> now]

\* the object literal newUser
NewUser(payload, id, now) ==
    [id |-> id,
     name |-> payload.name,
     email |-> payload.email,
     role |-> IF Truthy(payload, "role") THEN payload.role ELSE RoleStudent,
     createdAt |-> now]

\* create putting the new record in front: users.unshift(newUser)
createUnshift(us, payload, n, now) ==
    IF EmailExists(us, payload.email)
    THEN [outcome |-> "throw", error |-> DuplicateEmailError, users |-> us]
    ELSE LET newUser == NewUser(payload, Uuidv4(us, n), now)
         IN  [outcome |-> "return", ret |-> newUser,
              users |-> <<newUser>> \o us]

\* create(payload): the outcome and the store it leaves
create(us, payload, n, now) ==
    IF EmailExists(us, payload.email)
    THEN [outcome |-> "throw", error |-> DuplicateEmailError, users |-> us]
    ELSE LET newUser == NewUser(payload, Uuidv4(us, n), now)
         IN  [outcome |-> "return", ret |-> newUser,
              users |-> Append(us, newUser)]

(***************************************************************************)
(* update                                                                  *)
(***************************************************************************)
\* the check of update with the emails compared as they are
EmailOwnedByOtherExact(us, id, email) ==
    \E i \in 1..Len(us) :
        /\ us[i].email = email
        /\ us[i].id # id

\* the check of update without "user.id !== id": any record counts
EmailOwnedByAnyone(us, id, email) ==
    \E i \in 1..Len(us) :
        ToLowerCase(us[i].email) = ToLowerCase(email)

\* users.find(user => user.email.toLowerCase() === payload.email.toLowerCase()
\*                    && user.id !== id)
EmailOwnedByOther(us, id, email) ==
    \E i \in 1..Len(us) :
        /\ ToLowerCase(us[i].email) = ToLowerCase(email)
        /\ us[i].id # id

\* the merge with the role defaulted as create defaults it
MergeUserDefaultRole(user, payload, now) ==
    [k \in DOMAIN user \cup DOMAIN payload \cup {"updatedAt"} |->
        IF k = "updatedAt" THEN now
        ELSE IF k = "role" /\ ~Truthy(payload, "role") THEN RoleStudent
        ELSE IF k \in DOMAIN payload THEN payload[k]
        ELSE user[k]]

\* the merge stamping createdAt where it should stamp updatedAt
MergeUserStampCreated(user, payload, now) ==
    [k \in DOMAIN user \cup DOMAIN payload |->
        IF k = "createdAt" THEN now
        ELSE IF k \in DOMAIN payload THEN payload[k]
        ELSE user[k]]

\* { ...user, ...payload, updatedAt: new Date().toISOString() }
MergeUser(user, payload, now) ==
    [k \in DOMAIN user \cup DOMAIN payload \cup {"updatedAt"} |->
        IF k = "updatedAt" THEN now
        ELSE IF k \in DOMAIN payload THEN payload[k]
        ELSE user[k]]

\* update checking the email before it looks for the record
updateCheckEmailFirst(us, id, payload, now) ==
    LET userIndex == FindIndex(us, id)
    IN  IF Truthy(payload, "email")
           /\ EmailOwnedByOther(us, id, payload.email)
        THEN [outcome |-> "throw", error |-> DuplicateEmailError, users |-> us]
        ELSE IF userIndex = -1
        THEN [outcome |-> "return", ret |-> Null, users |-> us]
        ELSE LET merged == MergeUser(us[userIndex + 1], payload, now)
             IN  [outcome |-> "return", ret |-> merged,
                  users |-> [us EXCEPT ![userIndex + 1] = merged]]

\* update writing the merged record before it checks the email
updateMergeFirst(us, id, payload, now) ==
    LET userIndex == FindIndex(us, id)
    IN  IF userIndex = -1
        THEN [outcome |-> "return", ret |-> Null, users |-> us]
        ELSE LET merged == MergeUser(us[userIndex + 1], payload, now)
                 written == [us EXCEPT ![userIndex + 1] = merged]
             IN  IF Truthy(payload, "email")
                    /\ EmailOwnedByOther(us, id, payload.email)
                 THEN [outcome |-> "throw", error |-> DuplicateEmailError,
                       users |-> written]
                 ELSE [outcome |-> "return", ret |-> merged, users |-> written]

\* update(id, payload): the outcome and the store it leaves
update(us, id, payload, now) ==
    LET userIndex == FindIndex(us, id)
    IN  IF userIndex = -1
        THEN [outcome |-> "return", ret |-> Null, users |-> us]
        ELSE IF Truthy(payload, "email")
                /\ EmailOwnedByOther(us, id, payload.email)
        THEN [outcome |-> "throw", error |-> DuplicateEmailError, users |-> us]
        ELSE LET merged == MergeUser(us[userIndex + 1], payload, now)
             IN  [outcome |-> "return", ret |-> merged,
                  users |-> [us EXCEPT ![userIndex + 1] = merged]]

(***************************************************************************)
(* remove                                                                  *)
(***************************************************************************)
\* splice without its count: users.splice(index) drops the rest of the array
SpliceToEnd(us, index) ==
    SubSeq(us, 1, index)

\* users.splice(index, 1), index 0-based
Splice1(us, index) ==
    SubSeq(us, 1, index) \o SubSeq(us, index + 2, Len(us))

\* remove(id): the outcome and the store it leaves
remove(us, id) ==
    LET userIndex == FindIndex(us, id)
    IN  IF userIndex = -1
        THEN [outcome |-> "return", ret |-> FALSE, users |-> us]
        ELSE [outcome |-> "return", ret |-> TRUE,
              users |-> Splice1(us, userIndex)]

(***************************************************************************)
(* list                                                                    *)
(***************************************************************************)
\* the default of the parameter `limit`
DefaultLimit == 10
\* the default of the parameter `offset`
DefaultOffset == 0

\* String.prototype.split(sep), sep one code unit: the pieces between the
\* separators, in order
RECURSIVE Split(_, _)
Split(s, sep) ==
    IF \A i \in 1..Len(s) : s[i] # sep
    THEN <<s>>
    ELSE LET k == CHOOSE i \in 1..Len(s) :
                      /\ s[i] = sep
                      /\ \A j \in 1..(i - 1) : s[j] # sep
         IN  <<SubSeq(s, 1, k - 1)>> \o Split(SubSeq(s, k + 1, Len(s)), sep)

\* a < b on strings: the order of the first code unit that differs, a proper
\* prefix first
StrLess(a, b) ==
    \E k \in 1..Len(b) :
        /\ \A j \in 1..(k - 1) : j <= Len(a) /\ a[j] = b[j]
        /\ k - 1 <= Len(a)
        /\ (k > Len(a) \/ a[k] < b[k])

\* aVal < bVal, for the values of one field: names are strings, createdAt a
\* timestamp
ValLess(aVal, bVal, field) ==
    IF field = "name" THEN StrLess(aVal, bVal) ELSE aVal < bVal

\* the comparator with every direction but "asc" taken for descending
ComparatorDescUnlessAsc(a, b, field, direction) ==
    LET aVal == a[field]
        bVal == b[field]
        comparison == IF ValLess(aVal, bVal, field) THEN -1
                      ELSE IF ValLess(bVal, aVal, field) THEN 1
                      ELSE 0
    IN  IF direction = <<97, 115, 99>> THEN comparison ELSE -comparison

\* the comparator handed to sort
Comparator(a, b, field, direction) ==
    LET aVal == a[field]
        bVal == b[field]
        comparison == IF ValLess(aVal, bVal, field) THEN -1
                      ELSE IF ValLess(bVal, aVal, field) THEN 1
                      ELSE 0
    IN  IF direction = DirDesc THEN -comparison ELSE comparison

\* one step of a sort that is not stable: x goes in front of the first
\* element that the comparator does not put before it
InsertSortedBeforeTies(sorted, x, field, direction) ==
    LET after == {i \in 1..Len(sorted) :
                      Comparator(sorted[i], x, field, direction) >= 0}
        k == IF after = {} THEN Len(sorted) + 1
             ELSE CHOOSE i \in after : \A j \in after : i <= j
    IN  SubSeq(sorted, 1, k - 1) \o <<x>> \o SubSeq(sorted, k, Len(sorted))

\* one step of a stable sort: x goes in front of the first element that the
\* comparator puts after it
InsertSorted(sorted, x, field, direction) ==
    LET after == {i \in 1..Len(sorted) :
                      Comparator(sorted[i], x, field, direction) > 0}
        k == IF after = {} THEN Len(sorted) + 1
             ELSE CHOOSE i \in after : \A j \in after : i <= j
    IN  SubSeq(sorted, 1, k - 1) \o <<x>> \o SubSeq(sorted, k, Len(sorted))

\* Array.prototype.sort(comparator): stable (ECMAScript 2019, V8 since 7.0)
RECURSIVE Sort(_, _, _)
Sort(seq, field, direction) ==
    IF seq = <<>> THEN <<>>
    ELSE InsertSorted(Sort(SubSeq(seq, 1, Len(seq) - 1), field, direction),
                      seq[Len(seq)], field, direction)

\* the filter with the roles compared case-insensitively
RECURSIVE FilterByRoleAnyCase(_, _)
FilterByRoleAnyCase(seq, role) ==
    IF seq = <<>> THEN <<>>
    ELSE IF ToLowerCase(seq[1].role) = ToLowerCase(role)
    THEN <<seq[1]>> \o FilterByRoleAnyCase(Tail(seq), role)
    ELSE FilterByRoleAnyCase(Tail(seq), role)

\* Array.prototype.filter(user => user.role === role)
RECURSIVE FilterByRole(_, _)
FilterByRole(seq, role) ==
    IF seq = <<>> THEN <<>>
    ELSE IF seq[1].role = role
    THEN <<seq[1]>> \o FilterByRole(Tail(seq), role)
    ELSE FilterByRole(Tail(seq), role)

\* a relative index of slice made absolute: negative counts from the end
SliceIndex(k, len) ==
    IF k < 0 THEN (IF len + k < 0 THEN 0 ELSE len + k)
    ELSE IF k > len THEN len ELSE k

\* Array.prototype.slice(start, end), indices 0-based, end excluded
Slice(seq, start, end) ==
    SubSeq(seq, SliceIndex(start, Len(seq)) + 1, SliceIndex(end, Len(seq)))

\* the property of a record that a sort field names
FieldKey(field) ==
    IF field = FieldName THEN "name" ELSE "createdAt"

\* the sort step falling back to the name when the field is not one it knows
SortStepFallbackName(result, options) ==
    IF Truthy(options, "sort")
    THEN LET parts == Split(options.sort, 58)
             field == parts[1]
             direction == IF Len(parts) >= 2 THEN parts[2] ELSE <<>>
         IN  IF field # <<>> /\ (field = FieldName \/ field = FieldCreatedAt)
             THEN Sort(result, FieldKey(field), direction)
             ELSE Sort(result, "name", direction)
    ELSE result

\* the lines "Sort if specified"
SortStep(result, options) ==
    IF Truthy(options, "sort")
    THEN LET parts == Split(options.sort, 58)
             field == parts[1]
             direction == IF Len(parts) >= 2 THEN parts[2] ELSE <<>>
         IN  IF field # <<>> /\ (field = FieldName \/ field = FieldCreatedAt)
             THEN Sort(result, FieldKey(field), direction)
             ELSE result
    ELSE result

\* the lines "Filter by role if specified"
FilterStep(result, options) ==
    IF Truthy(options, "role")
    THEN FilterByRole(result, options.role)
    ELSE result

\* the pagination with limit taken for the end index: slice(offset, limit)
PageStepEndIsLimit(result, options) ==
    LET limit == IF "limit" \in DOMAIN options THEN options.limit
                 ELSE DefaultLimit
        offset == IF "offset" \in DOMAIN options THEN options.offset
                  ELSE DefaultOffset
    IN  Slice(result, offset, limit)

\* the lines "Apply pagination"
PageStep(result, options) ==
    LET limit == IF "limit" \in DOMAIN options THEN options.limit
                 ELSE DefaultLimit
        offset == IF "offset" \in DOMAIN options THEN options.offset
                  ELSE DefaultOffset
    IN  Slice(result, offset, offset + limit)

\* a JavaScript array as a value handed to a caller
Array(seq) == [isArray |-> TRUE, elems |-> seq]

\* list(options): what it returns
list(us, options) ==
    Array(PageStep(SortStep(FilterStep(us, options), options), options))

\* result = users: the store's own array, not a copy of it
SpreadUsersShared(us) == [own |-> TRUE, elems |-> us]

\* let result = [...users]: a new array holding the store's records
SpreadUsers(us) == [own |-> FALSE, elems |-> us]

\* list(options): the store it leaves.  filter and slice return new arrays,
\* sort reorders the array it is called on.
StoreAfterList(us, options) ==
    LET result == SpreadUsers(us)
        filtered == IF Truthy(options, "role")
                    THEN [own |-> FALSE, elems |-> FilterStep(result.elems, options)]
                    ELSE result
        sorted == SortStep(filtered.elems, options)
    IN  IF filtered.own THEN sorted ELSE us

(***************************************************************************)
(* The payloads the callers pass.  The controllers pass req.body as the    *)
(* validation middleware left it: the fields name, email and role of the   *)
(* Joi schemas, every other field stripped.                                *)
(***************************************************************************)
\* the objects with at most the properties name, email and role
Payloads(names, emails, roles) ==
    { n @@ e @@ r :
        n \in {EmptyObject} \cup {[name |-> v] : v \in names},
        e \in {EmptyObject} \cup {[email |-> v] : v \in emails},
        r \in {EmptyObject} \cup {[role |-> v] : v \in roles} }

\* bodies createSchema accepts: name and email required, role optional
CreatePayloads ==
    { p \in Payloads({NameAlex}, {EmailAlex, EmailAlexUpper, EmailAshaUpper},
                     {RoleStudent, RoleInstructor}) :
        {"name", "email"} \subseteq DOMAIN p }

\* bodies updateSchema accepts: every field optional, at least one given
UpdatePayloads ==
    { p \in Payloads({NameAshaPatel}, {EmailAlex, EmailAlexUpper, EmailAshaUpper},
                     {RoleInstructor}) :
        DOMAIN p # {} }

(***************************************************************************)
(* The state machine: one action per exported operation.                   *)
(***************************************************************************)
Init ==
    /\ users = SeedUsers
    /\ clock = SeedTime + 1
    /\ nextId = Len(SeedUsers) + 1
    /\ steps = 0
    /\ last = [op |-> "none"]
    /\ requests = <<>>

Create(payloads) ==
    /\ steps < MaxSteps
    /\ \E p \in payloads :
        LET r == create(users, p, nextId, clock)
        IN  /\ users' = r.users
            /\ nextId' = IF r.outcome = "return" THEN nextId + 1 ELSE nextId
            /\ last' = [op |-> "create", payload |-> p, outcome |-> r.outcome,
                        ret |-> IF r.outcome = "return" THEN r.ret ELSE r.error]
    /\ steps' = steps + 1
    /\ UNCHANGED <<clock, requests>>

Update(payloads) ==
    /\ steps < MaxSteps
    /\ \E id \in KnownIds, p \in payloads :
        LET r == update(users, id, p, clock)
        IN  /\ users' = r.users
            /\ last' = [op |-> "update", id |-> id, payload |-> p,
                        outcome |-> r.outcome,
                        ret |-> IF r.outcome = "return" THEN r.ret ELSE r.error]
    /\ steps' = steps + 1
    /\ UNCHANGED <<clock, nextId, requests>>

Remove ==
    /\ steps < MaxSteps
    /\ \E id \in KnownIds :
        LET r == remove(users, id)
        IN  /\ users' = r.users
            /\ last' = [op |-> "remove", id |-> id, outcome |-> r.outcome,
                        ret |-> r.ret]
    /\ steps' = steps + 1
    /\ UNCHANGED <<clock, nextId, requests>>

\* time passes between two calls
Tick ==
    /\ steps < MaxSteps
    /\ clock' = clock + 1
    /\ steps' = steps + 1
    /\ UNCHANGED <<users, nextId, last, requests>>

Next ==
    \/ Create(CreatePayloads)
    \/ Update(UpdatePayloads)
    \/ Remove
    \/ Tick

Spec == Init /\ [][Next]_vars

(***************************************************************************)
(* Runs that query the store: a few calls that change it, chosen to give   *)
(* equal names, mixed roles and a store order that is not the name order,  *)
(* and list under every combination of its options.                        *)
(***************************************************************************)
QueryCreatePayloads ==
    { [name |-> NameAsha, email |-> EmailAlex] }

QueryUpdatePayloads ==
    { [name |-> NameMaya] }

\* the options objects the controller builds: limit and offset parsed and
\* capped, role and sort as the query string gave them
ListOptions ==
    { l @@ o @@ r @@ s :
        l \in {EmptyObject, [limit |-> 2]},
        o \in {EmptyObject, [offset |-> 2], [offset |-> 10]},
        r \in {EmptyObject} \cup
              {[role |-> v] : v \in {RoleStudent, RoleStudentCapital}},
        s \in {EmptyObject} \cup
              {[sort |-> v] : v \in {SortNameAsc, SortNameDesc, SortCreatedAsc,
                                     SortCreatedDesc, SortEmailAsc,
                                     SortNameOnly, SortNameUp,
                                     SortNameDescUpper}} }

QCreate ==
    /\ steps < MaxQuerySteps
    /\ \E p \in QueryCreatePayloads :
        LET r == create(users, p, nextId, clock)
        IN  /\ users' = r.users
            /\ nextId' = IF r.outcome = "return" THEN nextId + 1 ELSE nextId
            /\ last' = [op |-> "create", payload |-> p, outcome |-> r.outcome,
                        ret |-> IF r.outcome = "return" THEN r.ret ELSE r.error]
    /\ steps' = steps + 1
    /\ UNCHANGED <<clock, requests>>

QUpdate ==
    /\ steps < MaxQuerySteps
    /\ \E id \in KnownIds, p \in QueryUpdatePayloads :
        LET r == update(users, id, p, clock)
        IN  /\ users' = r.users
            /\ last' = [op |-> "update", id |-> id, payload |-> p,
                        outcome |-> r.outcome,
                        ret |-> IF r.outcome = "return" THEN r.ret ELSE r.error]
    /\ steps' = steps + 1
    /\ UNCHANGED <<clock, nextId, requests>>

QRemove ==
    /\ steps < MaxQuerySteps
    /\ \E id \in KnownIds :
        LET r == remove(users, id)
        IN  /\ users' = r.users
            /\ last' = [op |-> "remove", id |-> id, outcome |-> r.outcome,
                        ret |-> r.ret]
    /\ steps' = steps + 1
    /\ UNCHANGED <<clock, nextId, requests>>

List ==
    /\ steps < MaxQuerySteps
    /\ \E o \in ListOptions :
        /\ last' = [op |-> "list", options |-> o, outcome |-> "return",
                    ret |-> list(users, o)]
        /\ users' = StoreAfterList(users, o)
    /\ steps' = steps + 1
    /\ UNCHANGED <<clock, nextId, requests>>

NextQuery ==
    \/ QCreate
    \/ QUpdate
    \/ QRemove
    \/ List

SpecQuery == Init /\ [][NextQuery]_vars

(***************************************************************************)
(* Direct calls of the service with payloads no validation has seen: an    *)
(* update payload may carry any property of a record, id and createdAt     *)
(* included.                                                               *)
(***************************************************************************)
RawUpdatePayloads ==
    { i @@ c @@ e :
        i \in {EmptyObject, [id |-> IdRavi]},
        c \in {EmptyObject, [createdAt |-> SeedTime + 1]},
        e \in {EmptyObject, [email |-> EmailAlex], [name |-> NameAshaPatel]} }

NextRaw ==
    \/ Create(CreatePayloads)
    \/ Update(RawUpdatePayloads)
    \/ Remove
    \/ Tick

SpecRaw == Init /\ [][NextRaw]_vars

(***************************************************************************)
(* Properties of the store.                                                *)
(***************************************************************************)
\* two emails are equal when compared case-insensitively
SameEmail(a, b) == ToLowerCase(a) = ToLowerCase(b)

\* the step taken is a call of `op`: an event that is not a tick of the clock
Called(op) == steps' = steps + 1 /\ clock' = clock /\ last'.op = op

\* a state follows a call of `op`
After(op) == last.op = op

C3_IdNeverChanges ==
    [][Called("update") =>
          /\ Len(users') = Len(users)
          /\ \A i \in 1..Len(users) : users'[i].id = users[i].id]_vars

C5_CreateDuplicateRejected ==
    [][(/\ Called("create")
        /\ \E i \in 1..Len(users) :
               SameEmail(users[i].email, last'.payload.email))
       => (/\ last'.outcome = "throw"
           /\ last'.ret.message = "Email already exists"
           /\ last'.ret.code = "VALIDATION_ERROR"
           /\ last'.ret.statusCode = 400
           /\ users' = users)]_vars

\* ALEX@example.com was refused after alex@example.com was created
C5_Witness ==
    /\ After("create")
    /\ last.outcome = "throw"
    /\ last.payload.email = EmailAlexUpper
    /\ Len(users) = Len(SeedUsers) + 1
    /\ users[Len(users)].email = EmailAlex

\* C6: update of a stored id with an email that equals, case-insensitively,
\* the email of a record with another id throws the duplicate-email error
\* and applies nothing: the store is exactly as it was.
C6_UpdateDuplicateRejected ==
    [][(/\ Called("update")
        /\ FindIndex(users, last'.id) # -1
        /\ "email" \in DOMAIN last'.payload
        /\ \E i \in 1..Len(users) :
               /\ users[i].id # last'.id
               /\ SameEmail(users[i].email, last'.payload.email))
       => (/\ last'.outcome = "throw"
           /\ last'.ret = DuplicateEmailError
           /\ users' = users)]_vars

\* an update that also carried a name and a role was refused for its email
C6_Witness ==
    /\ After("update")
    /\ last.outcome = "throw"
    /\ DOMAIN last.payload = {"name", "email", "role"}
    /\ last.payload.email = EmailAshaUpper
    /\ last.id = IdRavi
    /\ users = SeedUsers

\* C7: a successful update changes, in the record with that id, only the
\* fields present in the payload plus updatedAt; every other field keeps its
\* value and every other record is unchanged.
C7_UpdateFrame ==
    [][(/\ Called("update")
        /\ last'.outcome = "return"
        /\ last'.ret # Null)
       => LET k == FindIndex(users, last'.id) + 1
          IN  /\ Len(users') = Len(users)
              /\ \A i \in 1..Len(users) : i # k => users'[i] = users[i]
              /\ DOMAIN users[k] \subseteq DOMAIN users'[k]
              /\ \A f \in DOMAIN users[k] :
                     f \notin DOMAIN last'.payload \cup {"updatedAt"}
                         => users'[k][f] = users[k][f]
              /\ \A f \in DOMAIN users'[k] \ DOMAIN users[k] :
                     f \in DOMAIN last'.payload \cup {"updatedAt"}]_vars

\* an update of the name alone went through on the instructor
C7_Witness ==
    /\ After("update")
    /\ last.outcome = "return"
    /\ last.id = IdMaya
    /\ DOMAIN last.payload = {"name"}
    /\ getById(users, IdMaya).name = NameAshaPatel
    /\ getById(users, IdMaya).email = EmailMaya
    /\ getById(users, IdMaya).role = RoleInstructor

\* a call of update that changed the record with id `id`
UpdatedBy(id) ==
    /\ Called("update")
    /\ last'.id = id
    /\ last'.outcome = "return"
    /\ last'.ret # Null

EffectiveLimit(options) ==
    IF "limit" \in DOMAIN options THEN options.limit ELSE DefaultLimit

EffectiveOffset(options) ==
    IF "offset" \in DOMAIN options THEN options.offset ELSE DefaultOffset

\* the records of the store that have the role, as positions in the store
Matching(role) == {i \in 1..Len(users) : users[i].role = role}

\* C2: list(options) returns an object {items, total}: items the requested
\* page, total the number of records matching the role filter before
\* pagination ({items: [], total: 0} for an empty store).
C2_ListReturnsItemsAndTotal ==
    After("list") =>
        /\ {"items", "total"} \subseteq DOMAIN last.ret
        /\ last.ret.items =
               PageStep(SortStep(FilterStep(users, last.options), last.options),
                        last.options)
        /\ last.ret.total = Len(FilterStep(users, last.options))

\* C9: pagination selects the contiguous slice [offset, offset + limit) of
\* the filtered, sorted sequence; an offset at or beyond its end yields an
\* empty page.  The page is the array list returns.
C9_PageIsSlice ==
    After("list") =>
        LET base == SortStep(FilterStep(users, last.options), last.options)
            offset == EffectiveOffset(last.options)
            limit == EffectiveLimit(last.options)
            page == last.ret.elems
            rest == Len(base) - offset
        IN  /\ Len(page) = IF rest <= 0 THEN 0
                           ELSE IF rest < limit THEN rest ELSE limit
            /\ \A i \in 1..Len(page) : page[i] = base[offset + i]
            /\ offset >= Len(base) => page = <<>>

\* 3 records, limit 2, offset 2: the page is the 3rd record
C9_Witness ==
    /\ After("list")
    /\ Len(users) = 3
    /\ DOMAIN last.options = {"limit", "offset"}
    /\ last.options.limit = 2
    /\ last.options.offset = 2
    /\ last.ret.elems = <<users[3]>>

\* C10: with options.role given, list keeps exactly the records whose role
\* is equal to it, code unit for code unit, and a sort on name ascending
\* orders those kept records (stated for a page that holds them all).
C10_FilterThenSort ==
    (/\ After("list")
     /\ "role" \in DOMAIN last.options
     /\ {"limit", "offset"} \cap DOMAIN last.options = {})
    => LET page == last.ret.elems
           kept == Matching(last.options.role)
       IN  /\ Len(page) = Cardinality(kept)
           /\ {page[i] : i \in 1..Len(page)} = {users[i] : i \in kept}
           /\ ("sort" \in DOMAIN last.options
               /\ last.options.sort = SortNameAsc)
              => \A i, j \in 1..Len(page) :
                     i < j => ~StrLess(page[j].name, page[i].name)

\* roles [student, instructor, student] with names [Ravi, Maya, Asha],
\* role=student and sort=name:asc: the page is [Asha, Ravi]
C10_Witness ==
    /\ After("list")
    /\ [i \in 1..Len(users) |-> users[i].role]
           = <<RoleStudent, RoleInstructor, RoleStudent>>
    /\ [i \in 1..Len(users) |-> users[i].name]
           = <<NameRavi, NameMaya, NameAsha>>
    /\ DOMAIN last.options = {"role", "sort"}
    /\ last.options.role = RoleStudent
    /\ last.options.sort = SortNameAsc
    /\ last.ret.elems = <<users[3], users[1]>>

\* the place of a record of a page in the store, by its id
Place(u) == FindIndex(users, u.id)

\* the field a sort option names: the text before its first colon
SortField(options) == Split(options.sort, 58)[1]

\* C11: sorting is stable in both directions: for a sort on name or
\* createdAt, ascending or descending, records with equal values of the sort
\* field appear in the page in their store order.
C11_SortStable ==
    (/\ After("list")
     /\ "sort" \in DOMAIN last.options
     /\ SortField(last.options) \in {FieldName, FieldCreatedAt})
    => LET page == last.ret.elems
           f == FieldKey(SortField(last.options))
       IN  \A i, j \in 1..Len(page) :
               (i < j /\ page[i][f] = page[j][f])
                   => Place(page[i]) < Place(page[j])

\* the seeded users, which share one createdAt, come back as Asha, Ravi, Maya
\* for createdAt:desc
C11_Witness ==
    /\ After("list")
    /\ users = SeedUsers
    /\ DOMAIN last.options = {"sort"}
    /\ last.options.sort = SortCreatedDesc
    /\ last.ret.elems = SeedUsers

\* C12: a sort option whose field is neither name nor createdAt is ignored:
\* list returns, without an error, the filtered records in their store order
\* (with the default pagination, all of them).
C12_UnknownSortFieldIgnored ==
    (/\ After("list")
     /\ "sort" \in DOMAIN last.options
     /\ SortField(last.options) \notin {FieldName, FieldCreatedAt})
    => LET page == last.ret.elems
           kept == IF "role" \in DOMAIN last.options
                   THEN Matching(last.options.role)
                   ELSE 1..Len(users)
       IN  /\ last.outcome = "return"
           /\ \A i, j \in 1..Len(page) :
                  i < j => Place(page[i]) < Place(page[j])
           /\ {page[i] : i \in 1..Len(page)} \subseteq {users[i] : i \in kept}
           /\ {"limit", "offset"} \cap DOMAIN last.options = {}
                  => Len(page) = Cardinality(kept)

\* sort=email:asc on the seeded store, whose emails are not in order, gives
\* the store as it is
C12_Witness ==
    /\ After("list")
    /\ users = SeedUsers
    /\ DOMAIN last.options = {"sort"}
    /\ last.options.sort = SortEmailAsc
    /\ StrLess(users[3].email, users[2].email)
    /\ last.ret.elems = SeedUsers

(***************************************************************************)
(* Further properties of the store.                                        *)
(***************************************************************************)
\* C15: remove(id) of a stored id returns true and removes exactly that
\* record, every other record and their order unchanged; remove of an id
\* that is not stored returns false and changes nothing; so of two
\* successive remove(id) calls the first returns true and the second false.
C15_RemoveTwice ==
    [][Called("remove") =>
          LET k == FindIndex(users, last'.id)
          IN  /\ IF k # -1
                 THEN /\ last'.ret = TRUE
                      /\ Len(users') = Len(users) - 1
                      /\ \A i \in 1..Len(users') :
                             users'[i] = users[IF i <= k THEN i ELSE i + 1]
                      /\ \A i \in 1..Len(users') : users'[i].id # last'.id
                 ELSE /\ last'.ret = FALSE
                      /\ users' = users
              /\ (last.op = "remove" /\ last.ret = TRUE /\ last'.id = last.id)
                     => (last'.ret = FALSE /\ users' = users)]_vars

\* remove of Ravi's id twice: true, then false, Asha and Maya left in order
C15_Witness ==
    /\ After("remove")
    /\ last.id = IdRavi
    /\ last.ret = FALSE
    /\ steps = 2
    /\ users = <<SeedUsers[1], SeedUsers[3]>>

\* C16: update(id, payload) with an id that no stored record has returns
\* null, throws nothing and leaves the store unchanged, whatever the payload.
C16_UpdateUnknownId ==
    [][(Called("update") /\ FindIndex(users, last'.id) = -1)
       => (/\ last'.outcome = "return"
           /\ last'.ret = Null
           /\ users' = users)]_vars

\* update of an id whose record was removed returned null
C16_Witness ==
    /\ After("update")
    /\ last.id = IdAsha
    /\ last.outcome = "return"
    /\ last.ret = Null
    /\ users = <<SeedUsers[2], SeedUsers[3]>>

\* C17: create without a role stores and returns a record whose role is
\* "student"; create with role student or instructor stores that role.
C17_DefaultRole ==
    (After("create") /\ last.outcome = "return")
    => /\ users[Len(users)] = last.ret
       /\ last.ret.role = IF "role" \in DOMAIN last.payload
                          THEN last.payload.role
                          ELSE RoleStudent
       /\ last.ret.role \in {RoleStudent, RoleInstructor}

\* a create without role stored a student
C17_Witness ==
    /\ After("create")
    /\ last.outcome = "return"
    /\ DOMAIN last.payload = {"name", "email"}
    /\ users[Len(users)].role = RoleStudent
    /\ users[Len(users)].email = last.payload.email

\* C18: the store never reorders records: they stay in the order of their
\* creation (the seeded users first, in seed order, then the created ones in
\* the order uuidv4 issued their ids), and a list without sort returns the
\* surviving ones in that order.
C18_StoreOrder ==
    /\ \A i, j \in 1..Len(users) : i < j => users[i].id < users[j].id
    /\ (After("list") /\ "sort" \notin DOMAIN last.options)
       => LET page == last.ret.elems
          IN  /\ \A i, j \in 1..Len(page) :
                     i < j => page[i].id < page[j].id
              /\ last.options = EmptyObject => page = users

\* after a remove and a create, list() returns the two seeded survivors and
\* then the created record
C18_Witness ==
    /\ After("list")
    /\ last.options = EmptyObject
    /\ Len(users) = Len(SeedUsers)
    /\ users[1].id = IdRavi
    /\ users[3].id = Len(SeedUsers) + 1
    /\ last.ret.elems = users

(***************************************************************************)
(* The HTTP layer: the routes of src/src/routes/users.js, the validation   *)
(* middleware, the controllers, the response helpers and the error         *)
(* handler.  A controller is an async function without an await: it runs   *)
(* from the request to the response in one step.                           *)
(***************************************************************************)
\* requests in one run of SpecHttp
MaxHttpSteps == 2

\* "0"
Lit0 ==
    <<48>>
\* "-5"
LitMinus5 ==
    <<45, 53>>
\* "2"
Lit2 ==
    <<50>>
\* "500"
Lit500 ==
    <<53, 48, 48>>
\* "abc"
LitAbc ==
    <<97, 98, 99>>
\* "-1"
LitMinus1 ==
    <<45, 49>>
\* "A"
NameTooShort ==
    <<65>>
\* "alex.example.com"
EmailMalformed ==
    <<97, 108, 101, 120, 46, 101, 120, 97, 109, 112, 108, 101, 46, 99, 111, 109>>

\* the cap on limit
MAX_LIMIT == 100
\* the limit of a request that gives none, or gives one that is not positive
FallbackLimit == 10
\* the offset of a request that gives none, or gives one that is negative
FallbackOffset == 0

\* a number, and the value NaN
Num(n) == [nan |-> FALSE, val |-> n]
NaN == [nan |-> TRUE]

\* the value of the decimal digits of s from position i on, after acc
RECURSIVE DigitsValue(_, _, _)
DigitsValue(s, i, acc) ==
    IF i <= Len(s) /\ s[i] \in 48..57
    THEN DigitsValue(s, i + 1, acc * 10 + (s[i] - 48))
    ELSE acc

\* parseInt(s, 10): leading blanks skipped, an optional sign, then the
\* longest run of digits; NaN when there is no digit
ParseInt(s) ==
    LET blanks == {i \in 1..Len(s) : \A j \in 1..i : s[j] = 32}
        first == Cardinality(blanks) + 1
        signed == first <= Len(s) /\ s[first] \in {43, 45}
        start == IF signed THEN first + 1 ELSE first
    IN  IF start <= Len(s) /\ s[start] \in 48..57
        THEN Num((IF signed /\ s[first] = 45 THEN -1 ELSE 1)
                 * DigitsValue(s, start, 0))
        ELSE NaN

\* limit without its cap: the lines "Safety defaults" only
SanitizeLimitNoCap(parsed) ==
    IF parsed.nan \/ parsed.val <= 0 THEN FallbackLimit ELSE parsed.val

\* the lines "Safety defaults & caps", for limit
SanitizeLimit(parsed) ==
    LET limit == IF parsed.nan \/ parsed.val <= 0 THEN FallbackLimit
                 ELSE parsed.val
    IN  IF limit > MAX_LIMIT THEN MAX_LIMIT ELSE limit

\* offset with only NaN replaced
SanitizeOffsetNaNOnly(parsed) ==
    IF parsed.nan THEN FallbackOffset ELSE parsed.val

\* the lines "Safety defaults & caps", for offset
SanitizeOffset(parsed) ==
    IF parsed.nan \/ parsed.val < 0 THEN FallbackOffset ELSE parsed.val

\* the object `options` listUsers builds from req.query
ListUsersOptions(query) ==
    LET limit == IF Truthy(query, "limit") THEN ParseInt(query.limit)
                 ELSE Num(FallbackLimit)
        offset == IF Truthy(query, "offset") THEN ParseInt(query.offset)
                  ELSE Num(FallbackOffset)
    IN  [limit |-> SanitizeLimit(limit), offset |-> SanitizeOffset(offset)]
        @@ (IF Truthy(query, "role") THEN [role |-> query.role]
            ELSE EmptyObject)
        @@ (IF Truthy(query, "sort") THEN [sort |-> query.sort]
            ELSE EmptyObject)

\* const { key } = obj: the property when obj has it, undefined otherwise
Destructure(obj, key) ==
    IF key \in DOMAIN obj THEN [defined |-> TRUE, value |-> obj[key]]
    ELSE [defined |-> FALSE]

\* a property of a JSON body: JSON.stringify leaves out an undefined value
JsonProperty(key, v) ==
    IF v.defined THEN [k \in {key} |-> v.value] ELSE EmptyObject

\* responseHelpers.listResponse(res, items, meta)
listResponse(items, meta) ==
    [status |-> 200, body |-> [meta |-> meta] @@ JsonProperty("data", items)]

\* responseHelpers.itemResponse(res, item)
itemResponse(item) ==
    [status |-> 200, body |-> [data |-> item]]

\* the created response sent like an item response: status 200, no header
createdResponseAsItem(item, location) ==
    [status |-> 200, body |-> [data |-> item]]

\* responseHelpers.createdResponse(res, item, location)
createdResponse(item, location) ==
    [status |-> 201, body |-> [data |-> item], Location |-> location]

\* errorHandler(err, req, res, next)
errorHandler(err) ==
    IF "isJoi" \in DOMAIN err /\ err.isJoi
    THEN [status |-> 400,
          body |-> [error |-> [message |-> "Validation failed",
                               code |-> "VALIDATION_ERROR",
                               details |-> err.details]]]
    ELSE IF "code" \in DOMAIN err /\ err.code = "VALIDATION_ERROR"
    THEN [status |-> IF "statusCode" \in DOMAIN err THEN err.statusCode
                     ELSE 400,
          body |-> [error |-> [message |-> err.message,
                               code |-> "VALIDATION_ERROR",
                               details |-> <<>>]]]
    ELSE IF "code" \in DOMAIN err /\ err.code = "USER_NOT_FOUND"
    THEN [status |-> 404,
          body |-> [error |-> [message |-> err.message,
                               code |-> "USER_NOT_FOUND",
                               details |-> <<>>]]]
    ELSE IF "statusCode" \in DOMAIN err
    THEN [status |-> err.statusCode,
          body |-> [error |-> [message |-> err.message,
                               code |-> IF "code" \in DOMAIN err THEN err.code
                                        ELSE "CUSTOM_ERROR",
                               details |-> <<>>]]]
    ELSE [status |-> 500,
          body |-> [error |-> [message |-> "Internal Server Error",
                               code |-> "INTERNAL_ERROR",
                               details |-> <<>>]]]

\* the error the controllers make when the service finds no record
UserNotFoundError(id) ==
    [message |-> <<"User with ID", id, "not found">>,
     code |-> "USER_NOT_FOUND", statusCode |-> 404]

\* listUsers: the options it passes and the response it sends
listUsers(us, query) ==
    LET options == ListUsersOptions(query)
        result == list(us, options)
        items == Destructure(result, "items")
        total == Destructure(result, "total")
        meta == [limit |-> options.limit, offset |-> options.offset]
                @@ JsonProperty("total", total)
                @@ (IF Truthy(options, "role") THEN [role |-> options.role]
                    ELSE EmptyObject)
                @@ (IF Truthy(options, "sort") THEN [sort |-> options.sort]
                    ELSE EmptyObject)
    IN  [options |-> options, response |-> listResponse(items, meta)]

(***************************************************************************)
(* validate(schema) with createSchema and updateSchema                     *)
(***************************************************************************)
\* one entry of a Joi error's details
Detail(field, message) == [field |-> field, message |-> message]

\* Joi's string().email(), on the addresses of the model: one "@" with a
\* local part before it and, after it, a domain of at least two labels
IsEmail(s) ==
    LET ats == {i \in 1..Len(s) : s[i] = 64}
        at == CHOOSE i \in ats : TRUE
        dots == {i \in 1..Len(s) : s[i] = 46 /\ i > at}
    IN  /\ Cardinality(ats) = 1
        /\ at > 1
        /\ dots # {}
        /\ \A i \in dots : i > at + 1 /\ i < Len(s) /\ (i + 1) \notin dots

\* the key name: string().min(2).max(50), required in createSchema
NameErrors(body, schema) ==
    IF "name" \notin DOMAIN body
    THEN IF schema = "createSchema"
         THEN <<Detail("name", "Name is required")>> ELSE <<>>
    ELSE IF Len(body.name) = 0
    THEN <<Detail("name", IF schema = "createSchema" THEN "Name is required"
                          ELSE "\"name\" is not allowed to be empty")>>
    ELSE IF Len(body.name) < 2
    THEN <<Detail("name", "Name must be at least 2 characters long")>>
    ELSE IF Len(body.name) > 50
    THEN <<Detail("name", "Name must not exceed 50 characters")>>
    ELSE <<>>

\* the key email: string().email(), required in createSchema
EmailErrors(body, schema) ==
    IF "email" \notin DOMAIN body
    THEN IF schema = "createSchema"
         THEN <<Detail("email", "Email is required")>> ELSE <<>>
    ELSE IF Len(body.email) = 0
    THEN <<Detail("email", IF schema = "createSchema" THEN "Email is required"
                           ELSE "\"email\" is not allowed to be empty")>>
    ELSE IF ~IsEmail(body.email)
    THEN <<Detail("email", "Please provide a valid email address")>>
    ELSE <<>>

\* the key role: string().valid('student', 'instructor')
RoleErrors(body) ==
    IF "role" \in DOMAIN body /\ body.role \notin {RoleStudent, RoleInstructor}
    THEN <<Detail("role",
                  "Role must be either \"student\" or \"instructor\"")>>
    ELSE <<>>

\* stripUnknown switched off: every key of the body stays
StripUnknownKeepsAll(body) == body

\* stripUnknown: the keys of the schema only
StripUnknown(body) ==
    [k \in DOMAIN body \cap {"name", "email", "role"} |-> body[k]]

\* updateSchema's .min(1)
MinKeysErrors(body, schema) ==
    IF schema = "updateSchema" /\ DOMAIN StripUnknown(body) = {}
    THEN <<Detail("", "At least one field must be provided for update")>>
    ELSE <<>>

\* schema.validate(req.body, {abortEarly: false, stripUnknown: true})
SchemaValidate(schema, body) ==
    LET details == NameErrors(body, schema) \o EmailErrors(body, schema)
                   \o RoleErrors(body) \o MinKeysErrors(body, schema)
        value == StripUnknown(body)
                 @@ (IF schema = "createSchema" THEN [role |-> RoleStudent]
                     ELSE EmptyObject)
    IN  IF details # <<>>
        THEN [failed |-> TRUE,
              error |-> [name |-> "ValidationError", details |-> details]]
        ELSE [failed |-> FALSE, value |-> value]

\* a middleware that hands every body to the route as it came
validatePassThrough(schema, body) ==
    [next |-> "route", body |-> body]

\* validate(schema): the error it forwards, or the body it leaves in req.body
validate(schema, body) ==
    LET v == SchemaValidate(schema, body)
    IN  IF v.failed
        THEN [next |-> "error", error |-> v.error @@ [isJoi |-> TRUE]]
        ELSE [next |-> "route", body |-> v.value]

(***************************************************************************)
(* createUser and updateUser behind their validation                       *)
(***************************************************************************)
\* createUser with a failure answered as a plain 500
createUserErrorsAs500(us, body, n, now) ==
    LET r == create(us, body, n, now)
    IN  IF r.outcome = "throw"
        THEN [users |-> r.users, created |-> FALSE,
              response |-> errorHandler(EmptyObject)]
        ELSE [users |-> r.users, created |-> TRUE,
              response |-> createdResponse(r.ret,
                                           <<"/api/v1/users/", r.ret.id>>)]

\* createUser: the response and the store it leaves
createUser(us, body, n, now) ==
    LET r == create(us, body, n, now)
    IN  IF r.outcome = "throw"
        THEN [users |-> r.users, created |-> FALSE,
              response |-> errorHandler(r.error)]
        ELSE [users |-> r.users, created |-> TRUE,
              response |-> createdResponse(r.ret,
                                           <<"/api/v1/users/", r.ret.id>>)]

\* updateUser: the response and the store it leaves
updateUser(us, id, body, now) ==
    LET r == update(us, id, body, now)
    IN  IF r.outcome = "throw"
        THEN [users |-> r.users, response |-> errorHandler(r.error)]
        ELSE IF r.ret = Null
        THEN [users |-> r.users,
              response |-> errorHandler(UserNotFoundError(id))]
        ELSE [users |-> r.users, response |-> itemResponse(r.ret)]

\* responseHelpers.noContentResponse(res): a status and no body
noContentResponse == [status |-> 204]

\* getUser: the response
getUser(us, id) ==
    LET user == getById(us, id)
    IN  IF user = Null
        THEN [users |-> us, response |-> errorHandler(UserNotFoundError(id))]
        ELSE [users |-> us, response |-> itemResponse(user)]

\* deleteUser answering 204 whatever remove returned
deleteUserAlways204(us, id) ==
    LET r == remove(us, id)
    IN  [users |-> r.users, response |-> noContentResponse]

\* deleteUser: the response and the store it leaves
deleteUser(us, id) ==
    LET r == remove(us, id)
    IN  IF ~r.ret
        THEN [users |-> r.users,
              response |-> errorHandler(UserNotFoundError(id))]
        ELSE [users |-> r.users, response |-> noContentResponse]

(***************************************************************************)
(* Requests                                                                *)
(***************************************************************************)
\* req.query of GET /api/v1/users
Queries ==
    { l @@ o @@ rs :
        l \in {EmptyObject}
              \cup {[limit |-> v] : v \in {Lit0, LitMinus5, Lit2, Lit500, LitAbc}},
        o \in {EmptyObject}
              \cup {[offset |-> v] : v \in {Lit0, LitMinus1, Lit2, LitAbc}},
        rs \in {EmptyObject, [role |-> RoleStudent],
                [role |-> RoleStudent, sort |-> SortNameDesc]} }

\* req.body of POST /api/v1/users
PostBodies ==
    { [name |-> NameAlex, email |-> EmailAlex],
      [name |-> NameAlex, email |-> EmailAlexUpper, role |-> RoleInstructor],
      [name |-> NameAlex, email |-> EmailAshaUpper],
      [name |-> NameTooShort, email |-> EmailAlex],
      [name |-> NameAlex, email |-> EmailMalformed, role |-> RoleStudentCapital] }

\* req.body of PUT /api/v1/users/:id
PutBodies ==
    { [name |-> NameAshaPatel],
      [email |-> EmailAshaUpper],
      [email |-> EmailAlex, role |-> RoleInstructor],
      [id |-> IdRavi, createdAt |-> SeedTime + 1, name |-> NameAshaPatel],
      [role |-> RoleStudentCapital],
      EmptyObject }

\* GET /api/v1/users
GetUsers ==
    /\ steps < MaxHttpSteps
    /\ \E q \in Queries :
        LET r == listUsers(users, q)
        IN  /\ last' = [op |-> "listUsers", query |-> q,
                        options |-> r.options, response |-> r.response]
            /\ users' = StoreAfterList(users, r.options)
    /\ steps' = steps + 1
    /\ UNCHANGED <<clock, nextId, requests>>

\* POST /api/v1/users
PostUsers ==
    /\ steps < MaxHttpSteps
    /\ \E b \in PostBodies :
        LET v == validate("createSchema", b)
        IN  IF v.next = "error"
            THEN /\ last' = [op |-> "createUser", body |-> b, valid |-> FALSE,
                             response |-> errorHandler(v.error)]
                 /\ UNCHANGED <<users, nextId>>
            ELSE LET r == createUser(users, v.body, nextId, clock)
                 IN  /\ users' = r.users
                     /\ nextId' = IF r.created THEN nextId + 1 ELSE nextId
                     /\ last' = [op |-> "createUser", body |-> b,
                                 valid |-> TRUE, data |-> v.body,
                                 response |-> r.response]
    /\ steps' = steps + 1
    /\ UNCHANGED <<clock, requests>>

\* PUT /api/v1/users/:id
PutUser ==
    /\ steps < MaxHttpSteps
    /\ \E id \in KnownIds, b \in PutBodies :
        LET v == validate("updateSchema", b)
        IN  IF v.next = "error"
            THEN /\ last' = [op |-> "updateUser", id |-> id, body |-> b,
                             valid |-> FALSE,
                             response |-> errorHandler(v.error)]
                 /\ UNCHANGED users
            ELSE LET r == updateUser(users, id, v.body, clock)
                 IN  /\ users' = r.users
                     /\ last' = [op |-> "updateUser", id |-> id, body |-> b,
                                 valid |-> TRUE, data |-> v.body,
                                 response |-> r.response]
    /\ steps' = steps + 1
    /\ UNCHANGED <<clock, nextId, requests>>

\* GET /api/v1/users/:id
GetUser ==
    /\ steps < MaxHttpSteps
    /\ \E id \in KnownIds :
        LET r == getUser(users, id)
        IN  /\ users' = r.users
            /\ last' = [op |-> "getUser", id |-> id, response |-> r.response]
    /\ steps' = steps + 1
    /\ UNCHANGED <<clock, nextId, requests>>

\* DELETE /api/v1/users/:id
DeleteUser ==
    /\ steps < MaxHttpSteps
    /\ \E id \in KnownIds :
        LET r == deleteUser(users, id)
        IN  /\ users' = r.users
            /\ last' = [op |-> "deleteUser", id |-> id, response |-> r.response]
    /\ steps' = steps + 1
    /\ UNCHANGED <<clock, nextId, requests>>

NextHttp ==
    \/ GetUsers
    \/ GetUser
    \/ PostUsers
    \/ PutUser
    \/ DeleteUser
    \/ Tick

SpecHttp == Init /\ [][NextHttp]_vars

(***************************************************************************)
(* Claims about the HTTP layer                                             *)
(***************************************************************************)
\* the numbers the numeric query strings of the model denote
Denotes ==
    (Lit0 :> 0) @@ (LitMinus5 :> -5) @@ (LitMinus1 :> -1) @@ (Lit2 :> 2)
    @@ (Lit500 :> 500)

\* a query parameter is absent or is not a number
NoNumber(query, key) == key \notin DOMAIN query \/ query[key] = LitAbc

\* C13, as stated: the limit used for a list request is always in 1..100:
\* an absent limit becomes 10, a limit above 100 is clamped to 100, a limit
\* of 0 or below is clamped to the minimum 1, and no limit is rejected.
C13_LimitClampedToMinimum ==
    After("listUsers") =>
        /\ last.response.status = 200
        /\ last.options.limit \in 1..100
        /\ "limit" \notin DOMAIN last.query => last.options.limit = 10
        /\ ~NoNumber(last.query, "limit") =>
            LET n == Denotes[last.query.limit]
            IN  /\ n > 100 => last.options.limit = 100
                /\ n < 1 => last.options.limit = 1

\* C13, amended: the limit used for a list request is always in 1..100: an
\* absent limit becomes 10, a limit above 100 is clamped to 100, a limit in
\* 1..100 is used as it is, and a limit that is 0, negative or not a number
\* becomes the default 10; no limit is rejected.
C13_LimitDefaultedOrCapped ==
    After("listUsers") =>
        /\ last.response.status = 200
        /\ last.options.limit \in 1..100
        /\ NoNumber(last.query, "limit") => last.options.limit = 10
        /\ ~NoNumber(last.query, "limit") =>
            LET n == Denotes[last.query.limit]
            IN  last.options.limit = IF n > 100 THEN 100
                                     ELSE IF n < 1 THEN 10 ELSE n

\* a request with limit=0 was answered and its limit was 10
C13_Witness ==
    /\ After("listUsers")
    /\ "limit" \in DOMAIN last.query
    /\ last.query.limit = Lit0
    /\ last.options.limit = 10
    /\ last.response.status = 200

\* C14: the offset used for a list request is never negative: an absent or
\* non-numeric offset becomes 0, a negative offset becomes 0, and a
\* non-negative integer offset is passed through unchanged.
C14_OffsetNeverNegative ==
    After("listUsers") =>
        /\ last.options.offset >= 0
        /\ NoNumber(last.query, "offset") => last.options.offset = 0
        /\ ~NoNumber(last.query, "offset") =>
            LET n == Denotes[last.query.offset]
            IN  last.options.offset = IF n < 0 THEN 0 ELSE n

\* a request with offset=-1 was answered from offset 0
C14_Witness ==
    /\ After("listUsers")
    /\ "offset" \in DOMAIN last.query
    /\ last.query.offset = LitMinus1
    /\ last.options.offset = 0

\* C19: GET /users answers 200 with the envelope {meta, data}: data is the
\* page of users, meta.total the number of users matching the filter,
\* meta.limit and meta.offset the effective values, and meta.role and
\* meta.sort are present exactly when the request supplied them.
C19_ListEnvelope ==
    After("listUsers") =>
        LET body == last.response.body
            matching == FilterStep(users, last.options)
        IN  /\ last.response.status = 200
            /\ DOMAIN body = {"meta", "data"}
            /\ body.data = list(users, last.options).elems
            /\ "total" \in DOMAIN body.meta
            /\ body.meta.total = Len(matching)
            /\ body.meta.limit = last.options.limit
            /\ body.meta.offset = last.options.offset
            /\ "role" \in DOMAIN body.meta <=> "role" \in DOMAIN last.query
            /\ "sort" \in DOMAIN body.meta <=> "sort" \in DOMAIN last.query

\* the request hits the duplicate check of create: its body passed validation
\* and its email is, case aside, the email of a stored record
CreateHitsDuplicate ==
    /\ Called("createUser")
    /\ last'.valid
    /\ \E i \in 1..Len(users) : SameEmail(users[i].email, last'.data.email)

\* the request hits the duplicate check of update: its body passed
\* validation, its id is stored, and its email is, case aside, the email of
\* another stored record
UpdateHitsDuplicate ==
    /\ Called("updateUser")
    /\ last'.valid
    /\ \E i \in 1..Len(users) : users[i].id = last'.id
    /\ "email" \in DOMAIN last'.data
    /\ \E i \in 1..Len(users) :
        /\ users[i].id # last'.id
        /\ SameEmail(users[i].email, last'.data.email)

\* C20: a POST or PUT that hits a duplicate email answers status 400 with
\* error.code VALIDATION_ERROR, error.message "Email already exists" and
\* empty details, never a success, and leaves the store unchanged.
C20_DuplicateEmailSurfaces ==
    [][ CreateHitsDuplicate \/ UpdateHitsDuplicate =>
            /\ last'.response.status = 400
            /\ last'.response.body =
                   [error |-> [message |-> "Email already exists",
                               code |-> "VALIDATION_ERROR",
                               details |-> <<>>]]
            /\ users' = users
            /\ nextId' = nextId ]_vars

\* a POST with the email of a seeded record in another case was answered 400
C20_Witness ==
    /\ After("createUser")
    /\ last.valid
    /\ last.data.email = EmailAshaUpper
    /\ last.response.status = 400
    /\ last.response.body.error.message = "Email already exists"
    /\ users = SeedUsers

(***************************************************************************)
(* Claims settled after the HTTP layer                                     *)
(***************************************************************************)
\* C24: list is side-effect free: after list with any limit, offset, role
\* and sort options the store holds the same records in the same order as
\* before the call.
C24_ListLeavesStore ==
    [][Called("list") => users' = users]_vars

\* a list sorted by name descending returned a page in another order than
\* the store's, and the store is in its seeded order
C24_Witness ==
    /\ After("list")
    /\ "sort" \in DOMAIN last.options
    /\ last.options.sort = SortNameDesc
    /\ DOMAIN last.options = {"sort"}
    /\ last.ret.elems = <<SeedUsers[2], SeedUsers[3], SeedUsers[1]>>
    /\ users = SeedUsers

\* C26: the duplicate check of update leaves out the record being updated:
\* update(id, {email: e}) succeeds when e equals, case aside, the record's
\* own email and no other record's, and the stored email becomes e as given.
C26_OwnEmailAllowed ==
    [][(/\ Called("update")
        /\ "email" \in DOMAIN last'.payload
        /\ \E i \in 1..Len(users) :
               /\ users[i].id = last'.id
               /\ SameEmail(users[i].email, last'.payload.email)
        /\ \A i \in 1..Len(users) :
               users[i].id # last'.id
                   => ~SameEmail(users[i].email, last'.payload.email))
       => (/\ last'.outcome = "return"
           /\ last'.ret # Null
           /\ last'.ret.email = last'.payload.email
           /\ \E i \in 1..Len(users') :
                  /\ users'[i].id = last'.id
                  /\ users'[i].email = last'.payload.email)]_vars

\* the first call changed only the letter case of Asha's email
C26_Witness ==
    /\ After("update")
    /\ steps = 1
    /\ last.id = IdAsha
    /\ DOMAIN last.payload = {"email"}
    /\ last.outcome = "return"
    /\ users[1].email = EmailAshaUpper
    /\ users[1].email # SeedUsers[1].email

\* C28: in update the not-found check comes before the duplicate-email
\* check: update on an id that is not stored returns null and raises no
\* error even when payload.email is the email of a stored record.
C28_NotFoundBeforeDuplicate ==
    [][(/\ Called("update")
        /\ \A i \in 1..Len(users) : users[i].id # last'.id
        /\ "email" \in DOMAIN last'.payload
        /\ \E i \in 1..Len(users) :
               SameEmail(users[i].email, last'.payload.email))
       => (/\ last'.outcome = "return"
           /\ last'.ret = Null
           /\ users' = users)]_vars

\* update of an id never issued, with Asha's email in capitals, returned null
C28_Witness ==
    /\ After("update")
    /\ last.id = UnknownId
    /\ "email" \in DOMAIN last.payload
    /\ last.payload.email = EmailAshaUpper
    /\ last.outcome = "return"
    /\ last.ret = Null
    /\ users = SeedUsers

\* C29: an email is reserved only while a stored record holds it: once
\* remove has taken its record away, or update has moved its record to
\* another email, a create or update using that email in any letter case
\* succeeds.
C29_EmailReleased ==
    [][(/\ Called("create")
        /\ \A i \in 1..Len(users) :
               ~SameEmail(users[i].email, last'.payload.email)
        => /\ last'.outcome = "return"
           /\ last'.ret.email = last'.payload.email
           /\ users' = Append(users, last'.ret))
       /\
       (/\ Called("update")
        /\ \E i \in 1..Len(users) : users[i].id = last'.id
        /\ "email" \in DOMAIN last'.payload
        /\ \A i \in 1..Len(users) :
               ~SameEmail(users[i].email, last'.payload.email)
        => /\ last'.outcome = "return"
           /\ last'.ret # Null
           /\ last'.ret.email = last'.payload.email
           /\ \E i \in 1..Len(users') : users'[i] = last'.ret)]_vars

\* Asha's record moved to alex@example.com, then a create took
\* ASHA@EXAMPLE.COM
C29_Witness ==
    /\ After("create")
    /\ last.outcome = "return"
    /\ last.ret.email = EmailAshaUpper
    /\ Len(users) = Len(SeedUsers) + 1
    /\ users[1].id = IdAsha
    /\ users[1].email = EmailAlex

\* the sort options of the model whose direction is exactly "desc"
DescendingSorts == {SortNameDesc, SortCreatedDesc}

\* the sort options of the model on name or createdAt with another direction,
\* or with none
OtherDirectionSorts ==
    {SortNameAsc, SortCreatedAsc, SortNameOnly, SortNameUp, SortNameDescUpper}

\* C30: for a sort on name or createdAt only the exact direction "desc"
\* sorts descending; any other direction, a missing one or an unrecognised
\* one included, sorts ascending, and the call is not rejected.
C30_OnlyDescSortsDescending ==
    (After("list") /\ "sort" \in DOMAIN last.options)
    => LET page == last.ret.elems
           f == FieldKey(SortField(last.options))
       IN  /\ last.outcome = "return"
           /\ last.options.sort \in DescendingSorts
              => \A i, j \in 1..Len(page) :
                     i < j => ~ValLess(page[i][f], page[j][f], f)
           /\ last.options.sort \in OtherDirectionSorts
              => \A i, j \in 1..Len(page) :
                     i < j => ~ValLess(page[j][f], page[i][f], f)

\* sort=name:DESC returned the seeded users by name ascending: Asha, Maya,
\* Ravi
C30_Witness ==
    /\ After("list")
    /\ users = SeedUsers
    /\ DOMAIN last.options = {"sort"}
    /\ last.options.sort = SortNameDescUpper
    /\ last.ret.elems = <<SeedUsers[1], SeedUsers[3], SeedUsers[2]>>

\* the ids of the stored records
StoredIds == {users[i].id : i \in 1..Len(users)}

\* the ids that were given to a record the store no longer holds
GoneIds == (IdAsha .. (nextId - 1)) \ StoredIds

\* the answer "not found"
IsNotFound(response) ==
    /\ response.status = 404
    /\ response.body.error.code = "USER_NOT_FOUND"

\* C21: DELETE /users/:id for a stored id answers 204 with no body and
\* removes the record; from then on every GET, PUT with a valid body and
\* DELETE for that id answers 404 USER_NOT_FOUND and changes nothing in the
\* store, and the id never comes back.
C21_DeletedStaysDeleted ==
    [][/\ (Called("deleteUser") /\ last'.id \in StoredIds)
          => /\ last'.response = [status |-> 204]
             /\ users' = SelectSeq(users, LAMBDA u : u.id # last'.id)
             /\ Len(users') = Len(users) - 1
       /\ (/\ \/ Called("getUser")
              \/ Called("deleteUser")
              \/ Called("updateUser") /\ last'.valid
           /\ last'.id \in GoneIds)
          => /\ IsNotFound(last'.response)
             /\ users' = users
       /\ GoneIds \subseteq GoneIds']_vars

\* a valid PUT for Asha's id, after her record was deleted, was answered 404
C21_Witness ==
    /\ After("updateUser")
    /\ last.valid
    /\ last.id = IdAsha
    /\ IdAsha \in GoneIds
    /\ IsNotFound(last.response)
    /\ users = <<SeedUsers[2], SeedUsers[3]>>

\* C22: a successful POST /users answers 201 with the created record as data
\* and the header Location /api/v1/users/<id> with the record's generated id;
\* a GET on that id right after it answers 200 with the same record.
C22_CreatedThenGet ==
    [][/\ (/\ Called("createUser")
           /\ last'.valid
           /\ \A i \in 1..Len(users) :
                  ~SameEmail(users[i].email, last'.data.email))
          => LET response == last'.response
             IN  /\ response.status = 201
                 /\ DOMAIN response = {"status", "body", "Location"}
                 /\ response.body.data.id \notin StoredIds
                 /\ response.body.data.email = last'.data.email
                 /\ response.Location = <<"/api/v1/users/", response.body.data.id>>
                 /\ users' = Append(users, response.body.data)
       /\ (/\ After("createUser")
           /\ last.response.status = 201
           /\ Called("getUser")
           /\ last'.id = last.response.body.data.id)
          => last'.response
                 = [status |-> 200, body |-> [data |-> last.response.body.data]]
      ]_vars

\* the record a POST created under the id 4 was fetched with GET
C22_Witness ==
    /\ After("getUser")
    /\ steps = 2
    /\ last.id = Len(SeedUsers) + 1
    /\ last.response.status = 200
    /\ last.response.body.data = users[Len(users)]
    /\ last.response.body.data.email = EmailAlexUpper
    /\ Len(users) = Len(SeedUsers) + 1

\* the keys of the two schemas
SchemaKeys == {"name", "email", "role"}

\* a body of the model breaks its schema: a name outside 2..50 characters, a
\* malformed email, a role other than student and instructor, a required
\* key of createSchema missing, or no key of updateSchema given
BreaksSchema(op, body) ==
    \/ "name" \in DOMAIN body /\ Len(body.name) \notin 2..50
    \/ "email" \in DOMAIN body /\ body.email = EmailMalformed
    \/ "role" \in DOMAIN body /\ body.role \notin {RoleStudent, RoleInstructor}
    \/ op = "createUser" /\ ~({"name", "email"} \subseteq DOMAIN body)
    \/ op = "updateUser" /\ DOMAIN body \cap SchemaKeys = {}

\* C23: for POST and PUT the validation runs before the controller: a body
\* that breaks its schema is answered 400 VALIDATION_ERROR "Validation
\* failed", the controller and the store operation do not run and the store
\* is unchanged; a body that passes reaches the controller as the validated
\* body, its unknown fields removed.
C23_ValidationFirst ==
    [][\A op \in {"createUser", "updateUser"} :
          Called(op) =>
              IF BreaksSchema(op, last'.body)
              THEN /\ ~last'.valid
                   /\ "data" \notin DOMAIN last'
                   /\ last'.response.status = 400
                   /\ last'.response.body.error.code = "VALIDATION_ERROR"
                   /\ last'.response.body.error.message = "Validation failed"
                   /\ users' = users
                   /\ nextId' = nextId
              ELSE /\ last'.valid
                   /\ DOMAIN last'.data \subseteq SchemaKeys
                   /\ \A k \in DOMAIN last'.body \cap SchemaKeys :
                          last'.data[k] = last'.body[k]
                   /\ "error" \in DOMAIN last'.response.body
                          => last'.response.body.error.message
                                 # "Validation failed"
      ]_vars

\* a PUT with an empty body for an id that is not stored was answered 400,
\* not 404
C23_Witness ==
    /\ After("updateUser")
    /\ last.body = EmptyObject
    /\ last.id = UnknownId
    /\ ~last.valid
    /\ last.response.status = 400
    /\ last.response.body.error.message = "Validation failed"
    /\ users = SeedUsers

\* a PUT whose body carried id and createdAt reached the controller with the
\* name alone
C23_WitnessStripped ==
    /\ After("updateUser")
    /\ DOMAIN last.body = {"id", "createdAt", "name"}
    /\ last.valid
    /\ DOMAIN last.data = {"name"}
    /\ last.response.status = 200

\* the id and createdAt of every stored record, in store order
IdStamps(us) == [i \in 1..Len(us) |-> <<us[i].id, us[i].createdAt>>]

\* C27: through the HTTP interface the id and createdAt of a stored user
\* cannot be changed: validation reduces a PUT body to name, email and role
\* before update sees it, every stored user keeps the id and createdAt it
\* was created with, and ids stay unique.
C27_HttpKeepsIdAndCreatedAt ==
    [][/\ (Called("updateUser") /\ last'.valid)
          => /\ DOMAIN last'.data \subseteq SchemaKeys
             /\ IdStamps(users') = IdStamps(users)
       /\ \A j \in 1..Len(users') :
              \/ \E i \in 1..Len(users) : IdStamps(users')[j] = IdStamps(users)[i]
              \/ /\ users'[j].id \notin StoredIds
                 /\ Called("createUser")
       /\ \A i, j \in 1..Len(users') :
              i # j => users'[i].id # users'[j].id]_vars

\* a PUT for Asha whose body named Ravi's id and a later createdAt changed
\* her name and left her id and createdAt as seeded
C27_Witness ==
    /\ After("updateUser")
    /\ last.id = IdAsha
    /\ {"id", "createdAt"} \subseteq DOMAIN last.body
    /\ last.body.id = IdRavi
    /\ last.response.status = 200
    /\ users[1].name = NameAshaPatel
    /\ users[1].id = IdAsha
    /\ users[1].createdAt = SeedTime
    /\ users[2].id = IdRavi

(***************************************************************************)
(* Requests in flight at once.  Node runs one callback at a time: the body *)
(* of a request is read by express.json() while other requests come in and *)
(* are answered, and once it is read the chain validate, controller,       *)
(* service, response runs without a break (the controllers are async       *)
(* functions that never await).                                            *)
(***************************************************************************)
\* requests of one run of SpecConcurrent
MaxRequests == 3

\* req.body of the POST requests sent at once
ConcurrentBodies ==
    { [name |-> NameAlex, email |-> EmailAlex],
      [name |-> NameAlex, email |-> EmailAlexUpper, role |-> RoleInstructor],
      [name |-> NameAlex, email |-> EmailAshaUpper] }

\* a request that has no response yet
NoResponse == [pending |-> TRUE]

\* the duplicate check run on the store as it was when the request came in
StoreCheckedAtArrival(arrived, current) == arrived

\* the array the duplicate check of create searches: users, as it is when
\* the controller runs
StoreChecked(arrived, current) == current

\* createUser for a request that came in when the store was `arrived` and
\* whose body was read when the store is `us`
createUserDispatched(us, arrived, body, n, now) ==
    IF EmailExists(StoreChecked(arrived, us), body.email)
    THEN [users |-> us, created |-> FALSE,
          response |-> errorHandler(DuplicateEmailError)]
    ELSE LET newUser == NewUser(body, Uuidv4(us, n), now)
         IN  [users |-> Append(us, newUser), created |-> TRUE,
              response |-> createdResponse(newUser,
                                           <<"/api/v1/users/", newUser.id>>)]

\* a POST /api/v1/users comes in: express.json() starts to read its body
Receive ==
    /\ Len(requests) < MaxRequests
    /\ \E b \in ConcurrentBodies :
        requests' = Append(requests, [body |-> b, arrived |-> users,
                                      response |-> NoResponse])
    /\ UNCHANGED <<users, clock, nextId, steps, last>>

\* the body of a request is read: validate, createUser and the response run
\* in one piece
Handle ==
    /\ \E i \in 1..Len(requests) :
        /\ requests[i].response = NoResponse
        /\ LET v == validate("createSchema", requests[i].body)
           IN  IF v.next = "error"
               THEN /\ requests' = [requests EXCEPT
                                       ![i].response = errorHandler(v.error)]
                    /\ last' = [op |-> "createUser", request |-> i,
                                body |-> requests[i].body, valid |-> FALSE,
                                response |-> errorHandler(v.error)]
                    /\ UNCHANGED <<users, nextId>>
               ELSE LET r == createUserDispatched(users, requests[i].arrived,
                                                  v.body, nextId, clock)
                    IN  /\ users' = r.users
                        /\ nextId' = IF r.created THEN nextId + 1 ELSE nextId
                        /\ requests' = [requests EXCEPT
                                           ![i].response = r.response]
                        /\ last' = [op |-> "createUser", request |-> i,
                                    body |-> requests[i].body, valid |-> TRUE,
                                    data |-> v.body, response |-> r.response]
    /\ steps' = steps + 1
    /\ UNCHANGED clock

NextConcurrent ==
    \/ Receive
    \/ Handle

SpecConcurrent == Init /\ [][NextConcurrent]_vars

\* the answered requests whose email is, case aside, e
Answered(e) ==
    {i \in 1..Len(requests) :
        /\ requests[i].response # NoResponse
        /\ SameEmail(requests[i].body.email, e)}

\* C25: with requests in flight at once, each store operation is one atomic
\* step: the answer and the store a request leaves are those of one create
\* on the store as it is at that moment; of the POST requests with emails
\* equal case aside (and free before), exactly one creates a record, every
\* other one gets the duplicate-email error; and stored emails are unique,
\* case aside, in every state of every interleaving.
C25_AtomicStoreOperations ==
    /\ [](\A i, j \in 1..Len(users) :
              i # j => ~SameEmail(users[i].email, users[j].email))
    /\ [](\A e \in {EmailAlex} :
              LET done == Answered(e)
                  created == {i \in done : requests[i].response.status = 201}
              IN  done # {} =>
                      /\ Cardinality(created) = 1
                      /\ \A i \in done \ created :
                             /\ requests[i].response.status = 400
                             /\ requests[i].response.body.error.message
                                    = "Email already exists")
    /\ [][Called("createUser") =>
              LET r == createUser(users, last'.data, nextId, clock)
              IN  /\ users' = r.users
                  /\ last'.response = r.response
                  /\ \/ users' = users
                     \/ /\ Len(users') = Len(users) + 1
                        /\ SubSeq(users', 1, Len(users)) = users]_vars

\* two POST requests with alex@example.com and ALEX@EXAMPLE.COM were both in
\* flight on the seeded store; the second was answered 201 and the first 400
C25_Witness ==
    /\ Len(requests) >= 2
    /\ requests[1].arrived = SeedUsers
    /\ requests[2].arrived = SeedUsers
    /\ requests[1].body.email = EmailAlex
    /\ requests[2].body.email = EmailAlexUpper
    /\ requests[1].response # NoResponse
    /\ requests[2].response # NoResponse
    /\ requests[1].response.status = 400
    /\ requests[2].response.status = 201
    /\ users[Len(users)].email = EmailAlexUpper

====
